---- MODULE Spec2Model ----
(***************************************************************************)
(* QuerifyAI: the chat pipeline of chat.service (table router with topic   *)
(* cache, context assembler, conversation store, completion call) and the  *)
(* snapshot artifacts (schema document, table-metadata file) it reads,     *)
(* which postgres.service builds and clears.                               *)
(*                                                                         *)
(* A chat request is an async function: the code between two awaits runs   *)
(* atomically on the event loop, so every action below is one such piece.  *)
(***************************************************************************)
EXTENDS Integers, Sequences, FiniteSets, TLC

(***************************************************************************)
(* Bounds of the model                                                     *)
(***************************************************************************)
\* chat requests that may arrive in one behaviour
MaxRequests == 2

\* chat requests that may arrive in one behaviour of a long conversation
MaxLongRequests == 8

\* the largest window asked of the conversation store
MaxWindow == 12

\* the sample rows of a table that are sanitized (the code fetches up to 10)
MaxRows == 3

\* testAndSetDb calls made while server.js runs, the one at startup included
MaxAttempts == 3

\* chat requests that arrive while the snapshot is built and torn down
MaxProbes == 1

\* concurrent request slots, conversation ids
Procs == {"r1", "r2"}
ConvIds == {"c1", "c2"}

\* the prompts users send
Prompts ==
  { "Same for customers in each region please",
    "List top 10 customers by total revenue" }

\* the table lists of the databases a session may be connected to
DbSchemas == { <<"orders">>, <<"customers", "orders">> }

(***************************************************************************)
(* String helpers (JavaScript String methods used by isFollowUpQuery)      *)
(***************************************************************************)
CharAt(s, i) == SubSeq(s, i, i)

UpperChars == "ABCDEFGHIJKLMNOPQRSTUVWXYZ"
LowerChars == "abcdefghijklmnopqrstuvwxyz"

LowerChar(c) ==
  IF \E j \in 1..Len(UpperChars) : CharAt(UpperChars, j) = c
    THEN CharAt(LowerChars, CHOOSE j \in 1..Len(UpperChars) : CharAt(UpperChars, j) = c)
    ELSE c

RECURSIVE toLowerCase(_)
toLowerCase(s) ==
  IF Len(s) = 0 THEN ""
  ELSE LowerChar(CharAt(s, 1)) \o toLowerCase(SubSeq(s, 2, Len(s)))

IsSpace(c) == c \in {" ", "\t", "\n", "\r"}

\* String.prototype.trim
trim(s) ==
  LET keep == {i \in 1..Len(s) : ~IsSpace(CharAt(s, i))}
  IN  IF keep = {} THEN ""
      ELSE LET lo == CHOOSE i \in keep : \A j \in keep : i <= j
               hi == CHOOSE i \in keep : \A j \in keep : j <= i
           IN  SubSeq(s, lo, hi)

\* String.prototype.includes
includes(s, w) ==
  \E i \in 1..(Len(s) - Len(w) + 1) : SubSeq(s, i, i + Len(w) - 1) = w

\* s.split(/\s+/).length: one more than the number of whitespace runs
splitLength(s) ==
  1 + Cardinality({i \in 1..Len(s) :
                     /\ IsSpace(CharAt(s, i))
                     /\ (i = 1 \/ ~IsSpace(CharAt(s, i - 1)))})

followUpWords ==
  <<"those", "they", "it ", "these", "that ", "same", " also",
    "additionally", "furthermore", "what about", " and ">>

\* the token count below which a query counts as a follow-up
FollowUpTokenLimit == 5

\* isFollowUpQuery without toLowerCase
isFollowUpQueryNoLowerCase(query) ==
  LET lower == trim(query)
  IN  \/ \E k \in 1..Len(followUpWords) : includes(lower, followUpWords[k])
      \/ splitLength(lower) < FollowUpTokenLimit

isFollowUpQuery(query) ==
  LET lower == trim(toLowerCase(query))
  IN  \/ \E k \in 1..Len(followUpWords) : includes(lower, followUpWords[k])
      \/ splitLength(lower) < FollowUpTokenLimit

(***************************************************************************)
(* Optional values: null / undefined is the empty sequence, a value v is   *)
(* the one-element sequence <<v>>                                          *)
(***************************************************************************)
None == <<>>
Some(v) == <<v>>
the(o) == o[1]

(***************************************************************************)
(* PII sanitizer (postgres.service)                                        *)
(*                                                                         *)
(* A sample value is a record of its JavaScript type and its text; a       *)
(* column's metadata is the schema row of the column, or None when the     *)
(* schema has no row for it.                                               *)
(***************************************************************************)
Value(type, text) == [type |-> type, text |-> text]
NullValue == Value("null", "")
StringValue(text) == Value("string", text)

DigitChars == "0123456789"

RECURSIVE String(_)
\* String(n) of a natural number
String(n) ==
  IF n < 10 THEN CharAt(DigitChars, n + 1)
  ELSE String(n \div 10) \o CharAt(DigitChars, (n % 10) + 1)

RECURSIVE padStart(_, _, _)
\* String.prototype.padStart with a one-character filler
padStart(s, targetLength, filler) ==
  IF Len(s) >= targetLength THEN s
  ELSE padStart(filler \o s, targetLength, filler)

\* String.prototype.endsWith
endsWith(s, w) ==
  Len(s) >= Len(w) /\ SubSeq(s, Len(s) - Len(w) + 1, Len(s)) = w

SchemaRow(tableName, columnName, dataType, isPrimary) ==
  [table_name |-> tableName, column_name |-> columnName,
   data_type |-> dataType, is_primary |-> isPrimary]

isDateType(columnMeta) ==
  LET dataType == toLowerCase(IF columnMeta = None THEN ""
                              ELSE the(columnMeta).data_type)
  IN  includes(dataType, "date") \/ includes(dataType, "time")

\* /^[^\s@]+@[^\s@]+\.[^\s@]+$/
looksLikeEmail(value) ==
  /\ value.type = "string"
  /\ LET s == value.text
         plain(lo, hi) ==
           /\ lo <= hi
           /\ \A i \in lo..hi : ~IsSpace(CharAt(s, i)) /\ CharAt(s, i) # "@"
     IN  \E at \in 1..Len(s), dot \in 1..Len(s) :
           /\ CharAt(s, at) = "@" /\ CharAt(s, dot) = "."
           /\ plain(1, at - 1) /\ plain(at + 1, dot - 1) /\ plain(dot + 1, Len(s))

\* value.replace(/\D/g, '').length between 10 and 15
looksLikePhone(value) ==
  /\ value.type = "string"
  /\ LET digits == Cardinality({i \in 1..Len(value.text) :
                      \E d \in 1..Len(DigitChars) :
                        CharAt(DigitChars, d) = CharAt(value.text, i)})
     IN  digits >= 10 /\ digits <= 15

\* piiNamePatterns without ssn
piiNamePatternsNoSsn ==
  <<"name", "email", "phone", "mobile", "social_security", "passport",
    "first_name", "lastname", "last_name", "fullname", "full_name",
    "middle_name", "dob", "birth", "address", "street", "city", "state", "zip",
    "postal", "country", "username", "user_name", "password", "passcode",
    "token", "secret", "api_key">>

piiNamePatterns ==
  <<"name", "email", "phone", "mobile", "ssn", "social_security", "passport",
    "first_name", "lastname", "last_name", "fullname", "full_name",
    "middle_name", "dob", "birth", "address", "street", "city", "state", "zip",
    "postal", "country", "username", "user_name", "password", "passcode",
    "token", "secret", "api_key">>

\* isLikelyPiiColumn without the primary-key test
isLikelyPiiColumnNoKeyTest(columnMeta, columnName, value) ==
  LET name == toLowerCase(columnName)
  IN  IF isDateType(columnMeta) THEN FALSE
      ELSE IF \E k \in 1..Len(piiNamePatterns) : includes(name, piiNamePatterns[k])
        THEN TRUE
      ELSE looksLikeEmail(value) \/ looksLikePhone(value)

\* isLikelyPiiColumn without the tests of the value's shape
isLikelyPiiColumnNamesOnly(columnMeta, columnName, value) ==
  LET name == toLowerCase(columnName)
  IN  IF columnMeta # None /\ the(columnMeta).is_primary THEN FALSE
      ELSE IF isDateType(columnMeta) THEN FALSE
      ELSE \E k \in 1..Len(piiNamePatterns) : includes(name, piiNamePatterns[k])

isLikelyPiiColumn(columnMeta, columnName, value) ==
  LET name == toLowerCase(columnName)
  IN  IF columnMeta # None /\ the(columnMeta).is_primary THEN FALSE
      ELSE IF isDateType(columnMeta) THEN FALSE
      ELSE IF \E k \in 1..Len(piiNamePatterns) : includes(name, piiNamePatterns[k])
        THEN TRUE
      ELSE looksLikeEmail(value) \/ looksLikePhone(value)

buildDummyValue(columnName, value, rowIndex) ==
  LET name == toLowerCase(columnName)
      n == rowIndex + 1
      has(w) == includes(name, w)
  IN  IF value.type = "null" THEN value
      ELSE IF has("email") THEN StringValue("user" \o String(n) \o "@example.com")
      ELSE IF has("phone") \/ has("mobile")
        THEN StringValue("555010" \o padStart(String(n), 3, "0"))
      ELSE IF has("first_name") THEN StringValue("FirstName" \o String(n))
      ELSE IF has("last_name") \/ has("lastname")
        THEN StringValue("LastName" \o String(n))
      ELSE IF has("full_name") \/ has("fullname")
        THEN StringValue("Person " \o String(n))
      ELSE IF name = "name" \/ endsWith(name, "_name")
        THEN StringValue("Name" \o String(n))
      ELSE IF has("address") \/ has("street")
        THEN StringValue(String(100 + n) \o " Example St")
      ELSE IF has("city") THEN StringValue("City" \o String(n))
      ELSE IF has("state") THEN StringValue("State" \o String(n))
      ELSE IF has("zip") \/ has("postal")
        THEN StringValue("000" \o padStart(String(n), 2, "0"))
      ELSE IF has("country") THEN StringValue("Country" \o String(n))
      ELSE IF has("username") \/ has("user_name")
        THEN StringValue("user_" \o String(n))
      ELSE IF has("password") \/ has("passcode") \/ has("token") \/ has("secret")
        THEN StringValue("redacted_" \o String(n))
      ELSE IF value.type = "string" THEN StringValue("redacted_" \o String(n))
      ELSE IF value.type = "number" THEN Value("number", String(n))
      ELSE IF value.type = "bigint" THEN Value("bigint", String(n))
      ELSE IF value.type = "boolean" THEN Value("boolean", "false")
      ELSE value

\* the body of the loop over the cells of a row in sanitizeSamples
sanitizeCell(columnMeta, columnName, value, rowIndex) ==
  IF isLikelyPiiColumn(columnMeta, columnName, value)
    THEN buildDummyValue(columnName, value, rowIndex)
    ELSE value

RECURSIVE join(_)
\* the lines of a text, each ended by a newline
join(lines) ==
  IF lines = <<>> THEN "" ELSE Head(lines) \o "\n" \o join(Tail(lines))

(***************************************************************************)
(* Snapshot artifacts (postgres.service)                                   *)
(***************************************************************************)
\* what getSchema returns for the tables of a database: none of the
\* databases of the model has a foreign key
schemaRowsOfTable(tableName) ==
  IF tableName = "customers"
    THEN << SchemaRow("customers", "id", "integer", TRUE),
            SchemaRow("customers", "email", "text", FALSE),
            SchemaRow("customers", "contact", "text", FALSE) >>
    ELSE << SchemaRow(tableName, "id", "integer", TRUE),
            SchemaRow(tableName, "total", "numeric", FALSE) >>

RECURSIVE fetchSchema(_)
fetchSchema(tables) ==
  IF tables = <<>> THEN <<>>
  ELSE schemaRowsOfTable(Head(tables)) \o fetchSchema(Tail(tables))

\* a sample row is the sequence of its cells, in the order of its columns
Cell(columnName, value) == [column |-> columnName, value |-> value]

\* what getSampleRows returns for a table
getSampleRows(tableName) ==
  IF tableName = "customers"
    THEN << << Cell("id", Value("number", "1")),
               Cell("email", StringValue("alice@x.com")),
               Cell("contact", StringValue("+1 (555) 123-4567")) >>,
            << Cell("id", Value("number", "2")),
               Cell("email", NullValue),
               Cell("contact", StringValue("bob@y.org")) >> >>
    ELSE << << Cell("id", Value("number", "1")),
               Cell("total", Value("number", "42")) >> >>

\* rawTableSamples: the rows of every table, lines 333-337
rawTableSamplesOf(tables) ==
  [i \in 1..Len(tables) |-> [table |-> tables[i], rows |-> getSampleRows(tables[i])]]

\* tableSamples[tableName] || []
rowsOf(tableSamples, tableName) ==
  IF \E i \in 1..Len(tableSamples) : tableSamples[i].table = tableName
    THEN tableSamples[CHOOSE i \in 1..Len(tableSamples) :
                        tableSamples[i].table = tableName].rows
    ELSE <<>>

\* columnMetaMap[tableName][columnName]
columnMetaOf(schemaRows, tableName, columnName) ==
  LET at == {i \in 1..Len(schemaRows) :
               /\ schemaRows[i].table_name = tableName
               /\ schemaRows[i].column_name = columnName}
  IN  IF at = {} THEN None
      ELSE Some(schemaRows[CHOOSE i \in at : \A j \in at : j <= i])

\* sanitizeSamples returning the rows as they were fetched
sanitizeNothing(schemaRows, tableSamples) == tableSamples

sanitizeSamples(schemaRows, tableSamples) ==
  [i \in 1..Len(tableSamples) |->
     [table |-> tableSamples[i].table,
      rows |->
        [r \in 1..Len(tableSamples[i].rows) |->
           [c \in 1..Len(tableSamples[i].rows[r]) |->
              LET at == tableSamples[i].rows[r][c]
              IN  Cell(at.column,
                       sanitizeCell(columnMetaOf(schemaRows, tableSamples[i].table,
                                                 at.column),
                                    at.column, at.value, r - 1))]]]]

RECURSIVE escapeCell(_)
\* .replace(/\|/g, '\\|').replace(/\n/g, ' ')
escapeCell(text) ==
  IF Len(text) = 0 THEN ""
  ELSE (IF CharAt(text, 1) = "|" THEN "\\|"
        ELSE IF CharAt(text, 1) = "\n" THEN " "
        ELSE CharAt(text, 1)) \o escapeCell(SubSeq(text, 2, Len(text)))

\* the backquote of markdown, written as an apostrophe
Backquote == "'"

formatScalar(value) ==
  IF value.type = "null" THEN Backquote \o "null" \o Backquote
  ELSE IF value.type \in {"boolean", "number", "bigint"}
    THEN Backquote \o value.text \o Backquote
  ELSE Backquote \o escapeCell(value.text) \o Backquote

RECURSIVE joinWith(_, _)
\* Array.prototype.join
joinWith(items, separator) ==
  IF items = <<>> THEN ""
  ELSE IF Len(items) = 1 THEN Head(items)
  ELSE Head(items) \o separator \o joinWith(Tail(items), separator)

\* generateTableDescriptions: one sentence per table, or the call throws, or
\* its answer is no JSON
DescriptionOutcomes == {"generated", "throws", "unparseable"}

\* descriptions[tableName] ?? '', descriptions being {} after a failure
descriptionOf(tableName, outcome) ==
  IF outcome = "generated" THEN "Stores " \o tableName \o "." ELSE ""

\* schemaRows.filter((r) => r.table_name === tableName)
columnsOf(schemaRows, tableName) ==
  SelectSeq(schemaRows, LAMBDA row : row.table_name = tableName)

\* the object writeTableMetadata serialises: one entry per table, in order
tableMetadataOf(tables, schemaRows, tableSamples, outcome) ==
  [i \in 1..Len(tables) |->
     [name |-> tables[i],
      description |-> descriptionOf(tables[i], outcome),
      columns |-> columnsOf(schemaRows, tables[i]),
      sampleRows |-> rowsOf(tableSamples, tables[i])]]

\* the lines of one table's section of the document
tableDetails(tableName, schemaRows, tableSamples) ==
  LET columns == columnsOf(schemaRows, tableName)
      sampleRows == rowsOf(tableSamples, tableName)
  IN  join(<<"### " \o tableName, "Columns:">>)
        \o (IF columns = <<>> THEN join(<<"- No columns found.">>)
            ELSE join(<<"| Name | Type | Keys | References |", "|---|---|---|---|">>)
                   \o join([k \in 1..Len(columns) |->
                        "| " \o columns[k].column_name \o " | " \o columns[k].data_type
                          \o " | " \o (IF columns[k].is_primary THEN "PK" ELSE "-")
                          \o " | - |"]))
        \o join(<<"Top 10 records:">>)
        \o (IF sampleRows = <<>> THEN join(<<"_No rows found._">>)
            ELSE join(<<"| " \o joinWith([c \in 1..Len(sampleRows[1]) |->
                                            sampleRows[1][c].column], " | ") \o " |">>)
                   \o join([r \in 1..Len(sampleRows) |->
                        "| " \o joinWith([c \in 1..Len(sampleRows[r]) |->
                                            formatScalar(sampleRows[r][c].value)], " | ")
                          \o " |"]))

RECURSIVE allTableDetails(_, _, _)
allTableDetails(tables, schemaRows, tableSamples) ==
  IF tables = <<>> THEN ""
  ELSE tableDetails(Head(tables), schemaRows, tableSamples)
         \o allTableDetails(Tail(tables), schemaRows, tableSamples)

\* buildSnapshotMarkdown without its blank lines, its Generated line and its
\* header separator rows of the sample tables
buildSnapshotMarkdown(tables, schemaRows, tableSamples) ==
  join(<<"# Database Explorer Context", "## Tables">>)
    \o (IF tables = <<>> THEN join(<<"No tables found in public schema.">>)
        ELSE join([i \in 1..Len(tables) |-> "- " \o tables[i]]))
    \o join(<<"## Relationships", "No foreign key relationships found.",
              "## Table Details">>)
    \o allTableDetails(tables, schemaRows, tableSamples)

\* writeExplorerSnapshot on each database: the document it writes, and the
\* metadata it writes for each outcome of generateTableDescriptions
writeExplorerSnapshot ==
  [tables \in DbSchemas |->
     LET schemaRows == fetchSchema(tables)
         tableSamples == sanitizeSamples(schemaRows, rawTableSamplesOf(tables))
     IN  [markdown |-> buildSnapshotMarkdown(tables, schemaRows, tableSamples),
          metadata |-> [outcome \in DescriptionOutcomes |->
                          tableMetadataOf(tables, schemaRows, tableSamples, outcome)]]]

(***************************************************************************)
(* Table router (chat.service)                                             *)
(***************************************************************************)
\* Object.keys(tableMetadata)
knownTablesOf(tableMetadata) ==
  [i \in 1..Len(tableMetadata) |-> tableMetadata[i].name]

includesName(names, name) == \E i \in 1..Len(names) : names[i] = name

\* tableMetadata[tableName]: the entry, or undefined
metaOf(tableMetadata, tableName) ==
  IF \E i \in 1..Len(tableMetadata) : tableMetadata[i].name = tableName
    THEN Some(tableMetadata[CHOOSE i \in 1..Len(tableMetadata) :
                              tableMetadata[i].name = tableName])
    ELSE None

\* A JSON text: what JSON.parse makes of it ("malformed": it throws)
JsonArray(items) == [type |-> "array", items |-> items]
JsonObject == [type |-> "object", items |-> <<>>]
Malformed == [type |-> "malformed", items |-> <<>>]

\* the message content of a classification response: a JSON text, bare or
\* wrapped in a ``` fence
Text(fenced, body) == [fenced |-> fenced, body |-> body]

ClassifierTexts ==
  { Text(FALSE, Malformed),
    Text(FALSE, JsonObject),
    Text(FALSE, JsonArray(<<>>)),
    Text(FALSE, JsonArray(<<"orders">>)),
    Text(FALSE, JsonArray(<<"customers">>)),
    Text(FALSE, JsonArray(<<"orders", "orders">>)),
    Text(FALSE, JsonArray(<<"orders", "ghost_table">>)),
    Text(FALSE, JsonArray(<<"ghost_table">>)),
    Text(FALSE, JsonArray(<<"ghost_table", "customers", "orders">>)),
    Text(TRUE, JsonArray(<<"orders">>)) }

\* what client.chat.completions.create does in selectRelevantTables
ClassifierResponses ==
  { [kind |-> "throws", content |-> Text(FALSE, Malformed)],
    [kind |-> "nocontent", content |-> Text(FALSE, Malformed)] }
    \cup { [kind |-> "content", content |-> t] : t \in ClassifierTexts }

\* content.replace(/```(?:json)?\n?|\n?```/g, '').trim()
stripFences(text) == Text(FALSE, text.body)

\* JSON.parse: a fenced text is no JSON
JSONparse(text) == IF text.fenced THEN Malformed ELSE text.body

\* filterKnownTables without the filter
filterNothing(parsed, knownTables) == parsed

\* parsed.filter((name) => knownTables.includes(name))
filterKnownTables(parsed, knownTables) ==
  SelectSeq(parsed, LAMBDA name : includesName(knownTables, name))

\* selectRelevantTables: the validated list, or null for the fallback
selectRelevantTables(response, tableMetadata) ==
  IF response.kind = "throws" THEN None
  ELSE LET content == IF response.kind = "nocontent"
                        THEN Text(FALSE, JsonArray(<<>>))
                        ELSE response.content
           parsed == JSONparse(stripFences(content))
       IN  IF parsed.type = "malformed" THEN None
           ELSE IF parsed.type # "array" THEN None
           ELSE Some(filterKnownTables(parsed.items, knownTablesOf(tableMetadata)))

(***************************************************************************)
(* Context assembler (chat.service)                                        *)
(***************************************************************************)
RECURSIVE tableSections(_, _)
tableSections(relevantTables, tableMetadata) ==
  IF relevantTables = <<>> THEN ""
  ELSE LET meta == metaOf(tableMetadata, Head(relevantTables))
           rest == tableSections(Tail(relevantTables), tableMetadata)
       IN  IF meta = None THEN rest
           ELSE join(<<"### " \o Head(relevantTables)>>)
                  \o (IF the(meta).description # ""
                        THEN join(<<the(meta).description>>) ELSE "")
                  \o rest

\* buildPartialSchemaContext rendering every table of the store
buildPartialSchemaContextAllTables(relevantTables, tableMetadata) ==
  join(<<"## Relevant Table Details">>)
    \o tableSections(knownTablesOf(tableMetadata), tableMetadata)

buildPartialSchemaContext(relevantTables, tableMetadata) ==
  join(<<"## Relevant Table Details">>)
    \o tableSections(relevantTables, tableMetadata)

\* prompts/chatbot.txt
template == "Answer questions about this database.\n{{dbSchema}}"

\* String.prototype.replace with a string pattern: the first occurrence
replace(s, pattern, replacement) ==
  IF ~includes(s, pattern) THEN s
  ELSE LET at == CHOOSE i \in 1..(Len(s) - Len(pattern) + 1) :
                   /\ SubSeq(s, i, i + Len(pattern) - 1) = pattern
                   /\ \A j \in 1..(i - 1) : SubSeq(s, j, j + Len(pattern) - 1) # pattern
       IN  SubSeq(s, 1, at - 1) \o replacement
             \o SubSeq(s, at + Len(pattern), Len(s))

(***************************************************************************)
(* Conversation store (conversation.repository)                            *)
(***************************************************************************)
\* the number of history entries a prompt carries
HistoryWindow == 10

Entry(role, content) == [role |-> role, content |-> content]

\* getRecentMessages returning the oldest k entries
getRecentMessagesOldest(log, k) ==
  SubSeq(log, 1, IF k < Len(log) THEN k ELSE Len(log))

\* getRecentMessages(conversationId, k) on the log of the conversation
getRecentMessages(log, k) ==
  SubSeq(log, Len(log) - (IF k < Len(log) THEN k ELSE Len(log)) + 1, Len(log))

\* appendMessage(conversationId, role, content) on the log of the conversation
appendMessage(log, role, content) == Append(log, Entry(role, content))

(***************************************************************************)
(* State                                                                   *)
(***************************************************************************)
VARIABLES
  topicCache,        \* the Map conversationId -> {query, tables}, as its entries
  conversations,     \* the conversation store: conversationId -> log
  tableMetadataFile, \* prompts/table-metadata.json: None when it does not exist
  explorerDoc,       \* prompts/db-explorer-context.md
  pc,                \* where each request stands in sendMessage
  prompt, conversationId,          \* the arguments of each request
  tableMetadata, isCacheHit, response, relevantTables, schemaContext, messages,
                     \* the locals of each request
  classifyCalls,     \* classification calls each request has issued
  caught,            \* the error loadTableMetadata caught for each request
  thrown,            \* the awaited call that threw in each request
  arrival,           \* the arrival number of each request in flight
  onArrival,         \* the cache entry of its conversation, and the number of
                     \* topicCache.set calls made for it, when each request arrived
  result,            \* what each request returned
  arrived,           \* the number of requests that have arrived
  cacheSets,         \* topicCache.set calls made for each conversation
  cell,              \* the sample cell the sanitizer was last applied to
  masked,            \* the value the sanitizer returned for it
  build,             \* the buildExplorerSnapshot call in flight: its position
                     \* and the locals of writeExplorerSnapshot
  clearing,          \* where the clearExplorerSnapshot call in flight stands
  cleared,           \* a teardown has completed and no build has started since
  dbPool,            \* server.js: the active pool, None for null
  dbAvailable,       \* server.js: the availability flag
  retryInterval,     \* server.js: the timer of the retry loop, None for null
  timers,            \* the intervals that were set and not cleared
  pools,             \* every pool created so far: who created it, open or closed
  attempts,          \* every testAndSetDb call so far: its caller, its
                     \* candidate pool, where it stands, what it returned
  demoConfigured     \* the DEMO_DB_* variables of the environment are set

shared == <<topicCache, cacheSets, conversations, tableMetadataFile, explorerDoc>>
locals == <<prompt, conversationId, tableMetadata, isCacheHit, response,
            relevantTables, schemaContext, messages, classifyCalls, caught,
            thrown, arrival, onArrival, result>>
sanitizer == <<cell, masked>>
snapshot == <<build, clearing, cleared>>
connection == <<dbPool, dbAvailable, retryInterval, timers, pools, attempts,
                demoConfigured>>
aside == <<sanitizer, snapshot, connection>>
vars == <<shared, pc, locals, arrived, aside>>

NoCell == [columnMeta |-> None, columnName |-> "", value |-> NullValue, rowIndex |-> 0]
NotSanitized == Value("none", "")

\* no build in flight; outcome and returned keep what the last build met
NoBuild ==
  [pc |-> "idle", tables |-> <<>>, schemaRows |-> <<>>, rawTableSamples |-> <<>>,
   tableSamples |-> <<>>, outcome |-> "", returned |-> ""]

\* no request in the slot
NotArrived == [entry |-> None, sets |-> 0]

NoMessages == <<>>
NoResponse == [kind |-> "none", content |-> Text(FALSE, Malformed)]
NoResult == [id |-> "", message |-> ""]

InitChat ==
  /\ topicCache = {}
  /\ conversations = [c \in ConvIds |-> <<>>]
  /\ tableMetadataFile = None
  /\ explorerDoc = ""
  /\ pc = [p \in Procs |-> "idle"]
  /\ prompt = [p \in Procs |-> ""]
  /\ conversationId = [p \in Procs |-> CHOOSE c \in ConvIds : TRUE]
  /\ tableMetadata = [p \in Procs |-> None]
  /\ isCacheHit = [p \in Procs |-> FALSE]
  /\ response = [p \in Procs |-> NoResponse]
  /\ relevantTables = [p \in Procs |-> None]
  /\ schemaContext = [p \in Procs |-> None]
  /\ messages = [p \in Procs |-> NoMessages]
  /\ classifyCalls = [p \in Procs |-> 0]
  /\ caught = [p \in Procs |-> ""]
  /\ thrown = [p \in Procs |-> ""]
  /\ arrival = [p \in Procs |-> 0]
  /\ onArrival = [p \in Procs |-> NotArrived]
  /\ result = [p \in Procs |-> NoResult]
  /\ arrived = 0
  /\ cacheSets = [c \in ConvIds |-> 0]

InitSnapshot ==
  /\ build = NoBuild
  /\ clearing = "idle"
  /\ cleared = FALSE

\* server.js is not running
NotLoaded ==
  /\ dbPool = None
  /\ dbAvailable = FALSE
  /\ retryInterval = None
  /\ timers = {}
  /\ pools = <<>>
  /\ attempts = <<>>
  /\ demoConfigured = FALSE

Init ==
  /\ InitChat
  /\ InitSnapshot
  /\ NotLoaded
  /\ cell = NoCell
  /\ masked = NotSanitized

(***************************************************************************)
(* topicCache: Map get and set                                             *)
(***************************************************************************)
topicCacheGet(cache, id) ==
  IF \E e \in cache : e.id = id
    THEN Some(CHOOSE e \in cache : e.id = id)
    ELSE None

\* topicCacheSet leaving an entry that is there
topicCacheSetFirstWins(cache, id, query, tables) ==
  IF \E e \in cache : e.id = id THEN cache
  ELSE cache \cup {[id |-> id, query |-> query, tables |-> tables]}

\* topicCacheSet keeping the previous entry
topicCacheSetKeepsOld(cache, id, query, tables) ==
  cache \cup {[id |-> id, query |-> query, tables |-> tables]}

topicCacheSet(cache, id, query, tables) ==
  {e \in cache : e.id # id} \cup {[id |-> id, query |-> query, tables |-> tables]}

\* a request takes the first free slot
SlotOrder == [p \in Procs |-> IF p = "r1" THEN 1 ELSE 2]
Busy(p) == pc[p] \in {"load", "classify", "instructions", "completion"}

(***************************************************************************)
(* chatService.sendMessage                                                 *)
(***************************************************************************)
\* a request arrives; it first awaits loadTableMetadata()
Arrive(p, q, id, limit) ==
  /\ ~Busy(p)
  /\ \A o \in Procs : SlotOrder[o] < SlotOrder[p] => Busy(o)
  /\ arrived < limit
  /\ arrived' = arrived + 1
  /\ pc' = [pc EXCEPT ![p] = "load"]
  /\ prompt' = [prompt EXCEPT ![p] = q]
  /\ conversationId' = [conversationId EXCEPT ![p] = id]
  /\ tableMetadata' = [tableMetadata EXCEPT ![p] = None]
  /\ isCacheHit' = [isCacheHit EXCEPT ![p] = FALSE]
  /\ response' = [response EXCEPT ![p] = NoResponse]
  /\ relevantTables' = [relevantTables EXCEPT ![p] = None]
  /\ schemaContext' = [schemaContext EXCEPT ![p] = None]
  /\ messages' = [messages EXCEPT ![p] = NoMessages]
  /\ classifyCalls' = [classifyCalls EXCEPT ![p] = 0]
  /\ caught' = [caught EXCEPT ![p] = ""]
  /\ thrown' = [thrown EXCEPT ![p] = ""]
  /\ arrival' = [arrival EXCEPT ![p] = arrived + 1]
  /\ onArrival' = [onArrival EXCEPT ![p] =
        [entry |-> topicCacheGet(topicCache, id), sets |-> cacheSets[id]]]
  /\ result' = [result EXCEPT ![p] = NoResult]
  /\ UNCHANGED <<shared, aside>>

Start(p, q, id) == Arrive(p, q, id, MaxRequests)

\* useSelection dropping the cache entry on an empty selection
useSelectionClearsOnEmpty(p, selection, hit, metadata) ==
  IF selection # None /\ Len(the(selection)) > 0
    THEN /\ schemaContext' = [schemaContext EXCEPT ![p] =
                Some(buildPartialSchemaContext(the(selection), metadata))]
         /\ topicCache' = IF hit THEN topicCache
                          ELSE topicCacheSet(topicCache, conversationId[p],
                                             prompt[p], the(selection))
         /\ cacheSets' = IF hit THEN cacheSets
                         ELSE [cacheSets EXCEPT ![conversationId[p]] = @ + 1]
    ELSE /\ schemaContext' = [schemaContext EXCEPT ![p] = None]
         /\ topicCache' = IF selection = None THEN topicCache
                          ELSE {e \in topicCache : e.id # conversationId[p]}
         /\ cacheSets' = cacheSets

\* lines 619-626: the context of a non-empty selection, and the cache entry
\* of a fresh one
useSelection(p, selection, hit, metadata) ==
  IF selection # None /\ Len(the(selection)) > 0
    THEN /\ schemaContext' = [schemaContext EXCEPT ![p] =
                Some(buildPartialSchemaContext(the(selection), metadata))]
         /\ topicCache' = IF hit THEN topicCache
                          ELSE topicCacheSet(topicCache, conversationId[p],
                                             prompt[p], the(selection))
         /\ cacheSets' = IF hit THEN cacheSets
                         ELSE [cacheSets EXCEPT ![conversationId[p]] = @ + 1]
    ELSE /\ schemaContext' = [schemaContext EXCEPT ![p] = None]
         /\ topicCache' = topicCache
         /\ cacheSets' = cacheSets

\* loadTableMetadata answering a missing file with an empty object
loadTableMetadataEmptyObject(file) == IF file = None THEN Some(<<>>) ELSE file

\* loadTableMetadata: the parsed file, or null when reading it throws
loadTableMetadata(file) == file

\* the error fs.readFile rejects with: the file is missing, or it is there
\* and the read fails
readError(file, fault) ==
  IF file = None THEN "ENOENT" ELSE IF fault THEN "EIO" ELSE ""

\* loadTableMetadata() returns; lines 604-617 run up to the next await
LoadTableMetadata(p, fault) ==
  /\ pc[p] = "load"
  /\ LET error == readError(tableMetadataFile, fault)
         loaded == IF error # "" THEN loadTableMetadata(None)
                   ELSE loadTableMetadata(tableMetadataFile)
     IN  /\ caught' = [caught EXCEPT ![p] = error]
         /\ IF loaded # None
              THEN LET entry == topicCacheGet(topicCache, conversationId[p])
                       hit == entry # None /\ isFollowUpQuery(prompt[p])
                   IN  /\ isCacheHit' = [isCacheHit EXCEPT ![p] = hit]
                       /\ IF hit
                            THEN /\ relevantTables' =
                                      [relevantTables EXCEPT ![p] = Some(the(entry).tables)]
                                 /\ useSelection(p, Some(the(entry).tables), TRUE,
                                                 the(loaded))
                                 /\ classifyCalls' = classifyCalls
                                 /\ tableMetadata' = tableMetadata
                                 /\ pc' = [pc EXCEPT ![p] = "instructions"]
                            ELSE /\ classifyCalls' = [classifyCalls EXCEPT ![p] = @ + 1]
                                 /\ tableMetadata' = [tableMetadata EXCEPT ![p] = loaded]
                                 /\ pc' = [pc EXCEPT ![p] = "classify"]
                                 /\ UNCHANGED <<relevantTables, schemaContext,
                                                topicCache, cacheSets>>
              ELSE /\ pc' = [pc EXCEPT ![p] = "instructions"]
                   /\ UNCHANGED <<tableMetadata, isCacheHit, relevantTables,
                                  schemaContext, classifyCalls, topicCache, cacheSets>>
  /\ UNCHANGED <<conversations, tableMetadataFile, explorerDoc, prompt,
                 conversationId, response, messages, thrown, arrival, onArrival,
                 result,
                 arrived, aside>>

\* the frame of a request that has ended: its locals are gone
ended(p) ==
  /\ tableMetadata' = [tableMetadata EXCEPT ![p] = None]
  /\ isCacheHit' = [isCacheHit EXCEPT ![p] = FALSE]
  /\ response' = [response EXCEPT ![p] = NoResponse]
  /\ relevantTables' = [relevantTables EXCEPT ![p] = None]
  /\ schemaContext' = [schemaContext EXCEPT ![p] = None]
  /\ messages' = [messages EXCEPT ![p] = NoMessages]
  /\ classifyCalls' = [classifyCalls EXCEPT ![p] = 0]
  /\ caught' = [caught EXCEPT ![p] = ""]
  /\ arrival' = [arrival EXCEPT ![p] = 0]
  /\ onArrival' = [onArrival EXCEPT ![p] = NotArrived]
  /\ prompt' = [prompt EXCEPT ![p] = ""]
  /\ conversationId' = [conversationId EXCEPT ![p] = CHOOSE c \in ConvIds : TRUE]

\* Classified with no try/catch around the classification call
ClassifiedNoCatch(p, settled) ==
  /\ pc[p] = "classify"
  /\ IF selectRelevantTables(settled, the(tableMetadata[p])) = None
       THEN /\ pc' = [pc EXCEPT ![p] = "error"]
            /\ thrown' = [thrown EXCEPT ![p] = "classification"]
            /\ ended(p)
            /\ UNCHANGED <<shared, result, arrived, aside>>
       ELSE /\ response' = [response EXCEPT ![p] = settled]
            /\ LET selection == selectRelevantTables(settled, the(tableMetadata[p]))
               IN  /\ relevantTables' = [relevantTables EXCEPT ![p] = selection]
                   /\ useSelection(p, selection, FALSE, the(tableMetadata[p]))
            /\ tableMetadata' = [tableMetadata EXCEPT ![p] = None]
            /\ pc' = [pc EXCEPT ![p] = "instructions"]
            /\ UNCHANGED <<conversations, tableMetadataFile, explorerDoc, prompt,
                           conversationId, isCacheHit, messages, classifyCalls,
                           caught, thrown, arrival, onArrival, result, arrived,
                           aside>>

\* the classification call settles; lines 616-626 run up to the next await
Classified(p, settled) ==
  /\ pc[p] = "classify"
  /\ response' = [response EXCEPT ![p] = settled]
  /\ LET selection == selectRelevantTables(settled, the(tableMetadata[p]))
     IN  /\ relevantTables' = [relevantTables EXCEPT ![p] = selection]
         /\ useSelection(p, selection, FALSE, the(tableMetadata[p]))
  /\ tableMetadata' = [tableMetadata EXCEPT ![p] = None]
  /\ pc' = [pc EXCEPT ![p] = "instructions"]
  /\ UNCHANGED <<conversations, tableMetadataFile, explorerDoc, prompt,
                 conversationId, isCacheHit, messages, classifyCalls, caught,
                 thrown, arrival, onArrival, result, arrived, aside>>

\* buildInstructions
buildInstructions(schemaOverride, doc) ==
  replace(template, "{{dbSchema}}",
          IF schemaOverride # None THEN the(schemaOverride) ELSE doc)

\* composeMessages with the prompt ahead of the history
composeMessagesPromptFirst(instructions, recentMessages, q) ==
  <<Entry("system", instructions), Entry("user", q)>> \o recentMessages

\* lines 633-637
composeMessages(instructions, recentMessages, q) ==
  <<Entry("system", instructions)>> \o recentMessages \o <<Entry("user", q)>>

\* buildInstructions returns; lines 632-644 run up to the completion call
Instructed(p) ==
  /\ pc[p] = "instructions"
  /\ messages' = [messages EXCEPT ![p] =
        composeMessages(buildInstructions(schemaContext[p], explorerDoc),
                        getRecentMessages(conversations[conversationId[p]], HistoryWindow),
                        prompt[p])]
  /\ pc' = [pc EXCEPT ![p] = "completion"]
  /\ isCacheHit' = [isCacheHit EXCEPT ![p] = FALSE]
  /\ response' = [response EXCEPT ![p] = NoResponse]
  /\ relevantTables' = [relevantTables EXCEPT ![p] = None]
  /\ schemaContext' = [schemaContext EXCEPT ![p] = None]
  /\ classifyCalls' = [classifyCalls EXCEPT ![p] = 0]
  /\ caught' = [caught EXCEPT ![p] = ""]
  /\ UNCHANGED <<shared, prompt, conversationId, tableMetadata, thrown, arrival,
                 onArrival,
                 result, arrived, aside>>

\* a read of the instruction files fails: sendMessage rejects
InstructionsFail(p) ==
  /\ pc[p] = "instructions"
  /\ pc' = [pc EXCEPT ![p] = "error"]
  /\ thrown' = [thrown EXCEPT ![p] = "instructions"]
  /\ ended(p)
  /\ UNCHANGED <<shared, result, arrived, aside>>

\* the replies of the completion service; "" stands for a missing content
Replies == {"SELECT 1;"}

\* storeTurn appending the reply ahead of the prompt
storeTurnReplyFirst(log, q, assistantMessage) ==
  appendMessage(appendMessage(log, "assistant", assistantMessage), "user", q)

\* storeTurn setting the log instead of appending to it
storeTurnOverwrite(log, q, assistantMessage) ==
  <<Entry("user", q), Entry("assistant", assistantMessage)>>

\* lines 646-648
storeTurn(log, q, assistantMessage) ==
  appendMessage(appendMessage(log, "user", q), "assistant", assistantMessage)

\* the completion call returns; lines 646-654
Completed(p, assistantMessage) ==
  /\ pc[p] = "completion"
  /\ conversations' = [conversations EXCEPT ![conversationId[p]] =
                         storeTurn(@, prompt[p], assistantMessage)]
  /\ result' = [result EXCEPT ![p] = [id |-> "chatcmpl", message |-> assistantMessage]]
  /\ pc' = [pc EXCEPT ![p] = "done"]
  /\ ended(p)
  /\ UNCHANGED <<topicCache, cacheSets, tableMetadataFile, explorerDoc, thrown,
                 arrived, aside>>

\* CompletionFails with the prompt appended ahead of the completion call
CompletionFailsAfterAppend(p) ==
  /\ pc[p] = "completion"
  /\ conversations' = [conversations EXCEPT ![conversationId[p]] =
                         appendMessage(@, "user", prompt[p])]
  /\ pc' = [pc EXCEPT ![p] = "error"]
  /\ thrown' = [thrown EXCEPT ![p] = "completion"]
  /\ ended(p)
  /\ UNCHANGED <<topicCache, cacheSets, tableMetadataFile, explorerDoc, result,
                 arrived, aside>>

\* CompletionFails with the error caught and an empty reply returned
CompletionFailsSwallowed(p) ==
  /\ pc[p] = "completion"
  /\ pc' = [pc EXCEPT ![p] = "done"]
  /\ thrown' = [thrown EXCEPT ![p] = "completion"]
  /\ result' = [result EXCEPT ![p] = [id |-> "", message |-> ""]]
  /\ ended(p)
  /\ UNCHANGED <<shared, arrived, aside>>

\* CompletionFails dropping the cache entry of the conversation
CompletionFailsDropsEntry(p) ==
  /\ pc[p] = "completion"
  /\ pc' = [pc EXCEPT ![p] = "error"]
  /\ thrown' = [thrown EXCEPT ![p] = "completion"]
  /\ topicCache' = {e \in topicCache : e.id # conversationId[p]}
  /\ ended(p)
  /\ UNCHANGED <<cacheSets, conversations, tableMetadataFile, explorerDoc,
                 result, arrived, aside>>

\* the completion call throws: sendMessage rejects
CompletionFails(p) ==
  /\ pc[p] = "completion"
  /\ pc' = [pc EXCEPT ![p] = "error"]
  /\ thrown' = [thrown EXCEPT ![p] = "completion"]
  /\ ended(p)
  /\ UNCHANGED <<shared, result, arrived, aside>>

(***************************************************************************)
(* postgresService.buildExplorerSnapshot / clearExplorerSnapshot           *)
(***************************************************************************)
\* writeExplorerSnapshot: the schema and the samples of the connected
\* database are fetched, the document is written, generateTableDescriptions
\* returns or throws, and writeTableMetadata writes the file
buildExplorerSnapshot(tables, outcome) ==
  /\ explorerDoc' = writeExplorerSnapshot[tables].markdown
  /\ tableMetadataFile' = Some(writeExplorerSnapshot[tables].metadata[outcome])
  /\ UNCHANGED <<topicCache, cacheSets, conversations, pc, locals, arrived, aside>>

\* clearExplorerSnapshotFile: the document is emptied and the file unlinked
clearExplorerSnapshot ==
  /\ explorerDoc' = ""
  /\ tableMetadataFile' = None
  /\ UNCHANGED <<topicCache, cacheSets, conversations, pc, locals, arrived, aside>>

Next ==
  \/ \E p \in Procs, q \in Prompts, id \in ConvIds : Start(p, q, id)
  \/ \E p \in Procs, fault \in BOOLEAN : LoadTableMetadata(p, fault)
  \/ \E p \in Procs, settled \in ClassifierResponses : Classified(p, settled)
  \/ \E p \in Procs : Instructed(p)
  \/ \E p \in Procs : InstructionsFail(p)
  \/ \E p \in Procs, reply \in Replies : Completed(p, reply)
  \/ \E p \in Procs : CompletionFails(p)
  \/ \E tables \in DbSchemas, outcome \in DescriptionOutcomes :
       buildExplorerSnapshot(tables, outcome)
  \/ clearExplorerSnapshot

Spec == Init /\ [][Next]_vars

(***************************************************************************)
(* Long conversations: one request at a time, no snapshot built, so that   *)
(* histories outgrow the window of HistoryWindow entries                   *)
(***************************************************************************)
StartLong(p, q, id) == Arrive(p, q, id, MaxLongRequests)

NextHistory ==
  \/ \E q \in Prompts, id \in ConvIds : StartLong("r1", q, id)
  \/ \E fault \in BOOLEAN : LoadTableMetadata("r1", fault)
  \/ Instructed("r1")
  \/ InstructionsFail("r1")
  \/ \E reply \in Replies : Completed("r1", reply)
  \/ CompletionFails("r1")

SpecHistory == Init /\ [][NextHistory]_vars

(***************************************************************************)
(* The snapshot step by step: one build and one teardown in flight, each   *)
(* advancing from await to await, and chat requests one at a time          *)
(***************************************************************************)
\* buildExplorerSnapshot() finds no pool available: lines 436-439
BuildUnavailable ==
  /\ build.pc = "idle"
  /\ build' = [NoBuild EXCEPT !.returned = "503"]
  /\ UNCHANGED <<shared, pc, locals, arrived, sanitizer, connection, clearing, cleared>>

\* buildExplorerSnapshot() is called with a pool and awaits fetchSchema
BuildStarts ==
  /\ build.pc = "idle"
  /\ build' = [NoBuild EXCEPT !.pc = "fetch"]
  /\ cleared' = FALSE
  /\ UNCHANGED <<shared, pc, locals, arrived, sanitizer, connection, clearing>>

\* a query of lines 330-337 throws: the catch of line 444 answers 500
FetchFails ==
  /\ build.pc = "fetch"
  /\ build' = [NoBuild EXCEPT !.returned = "500"]
  /\ UNCHANGED <<shared, pc, locals, arrived, sanitizer, connection, clearing, cleared>>

\* lines 330-348: the schema, the tables and their sample rows have come,
\* the samples are sanitized and the write of the document is awaited
FetchReturns(tables) ==
  /\ build.pc = "fetch"
  /\ LET schemaRows == fetchSchema(tables)
         rawTableSamples == rawTableSamplesOf(tables)
     IN  build' = [build EXCEPT !.pc = "writeDoc",
                                !.tables = tables,
                                !.schemaRows = schemaRows,
                                !.rawTableSamples = rawTableSamples,
                                !.tableSamples = sanitizeSamples(schemaRows, rawTableSamples)]
  /\ UNCHANGED <<shared, pc, locals, arrived, sanitizer, connection, clearing, cleared>>

\* line 349: the document is written; generateTableDescriptions is awaited
DocumentWritten ==
  /\ build.pc = "writeDoc"
  /\ explorerDoc' = buildSnapshotMarkdown(build.tables, build.schemaRows,
                                          build.tableSamples)
  /\ build' = [build EXCEPT !.pc = "describe"]
  /\ UNCHANGED <<topicCache, cacheSets, conversations, tableMetadataFile, pc,
                 locals, arrived, sanitizer, connection, clearing, cleared>>

\* DescriptionsSettled without the try of line 352: a failure ends the build
DescriptionsSettledNoCatch(outcome) ==
  /\ build.pc = "describe"
  /\ build' = IF outcome = "generated"
                THEN [build EXCEPT !.pc = "writeMeta", !.outcome = outcome]
                ELSE [NoBuild EXCEPT !.outcome = outcome, !.returned = "500"]
  /\ UNCHANGED <<shared, pc, locals, arrived, sanitizer, connection, clearing, cleared>>

\* lines 351-358: generateTableDescriptions returns, or throws and is
\* caught; writeTableMetadata is awaited either way
DescriptionsSettled(outcome) ==
  /\ build.pc = "describe"
  /\ build' = [build EXCEPT !.pc = "writeMeta", !.outcome = outcome]
  /\ UNCHANGED <<shared, pc, locals, arrived, sanitizer, connection, clearing, cleared>>

\* line 325: table-metadata.json is written and the build answers ok
MetadataWritten ==
  /\ build.pc = "writeMeta"
  /\ tableMetadataFile' =
       Some(tableMetadataOf(build.tables, build.schemaRows, build.tableSamples,
                            build.outcome))
  /\ build' = [NoBuild EXCEPT !.outcome = build.outcome, !.returned = "ok"]
  /\ UNCHANGED <<topicCache, cacheSets, conversations, explorerDoc, pc, locals,
                 arrived, sanitizer, connection, clearing, cleared>>

\* clearExplorerSnapshot() is called: line 363 awaits the write of ''
ClearStarts ==
  /\ clearing = "idle"
  /\ clearing' = "writeDoc"
  /\ UNCHANGED <<shared, pc, locals, arrived, sanitizer, connection, build, cleared>>

\* line 363: the document is emptied; the unlink is awaited
DocumentCleared ==
  /\ clearing = "writeDoc"
  /\ explorerDoc' = ""
  /\ clearing' = "unlink"
  /\ UNCHANGED <<topicCache, cacheSets, conversations, tableMetadataFile, pc,
                 locals, arrived, sanitizer, connection, build, cleared>>

\* lines 364-368: the file is unlinked, or was not there, and the teardown
\* answers ok
MetadataUnlinked ==
  /\ clearing = "unlink"
  /\ tableMetadataFile' = None
  /\ clearing' = "idle"
  /\ cleared' = TRUE
  /\ UNCHANGED <<topicCache, cacheSets, conversations, explorerDoc, pc, locals,
                 arrived, sanitizer, connection, build>>

StartProbe(p, q, id) == Arrive(p, q, id, MaxProbes)

NextSnapshot ==
  \/ BuildUnavailable
  \/ BuildStarts
  \/ FetchFails
  \/ \E tables \in DbSchemas : FetchReturns(tables)
  \/ DocumentWritten
  \/ \E outcome \in DescriptionOutcomes : DescriptionsSettled(outcome)
  \/ MetadataWritten
  \/ ClearStarts
  \/ DocumentCleared
  \/ MetadataUnlinked
  \/ \E q \in Prompts, id \in ConvIds : StartProbe("r1", q, id)
  \/ \E fault \in BOOLEAN : LoadTableMetadata("r1", fault)
  \/ \E settled \in ClassifierResponses : Classified("r1", settled)
  \/ Instructed("r1")
  \/ InstructionsFail("r1")
  \/ \E reply \in Replies : Completed("r1", reply)
  \/ CompletionFails("r1")

SpecSnapshot == Init /\ [][NextSnapshot]_vars

(***************************************************************************)
(* Connection management (server.js): the pool created at load, the        *)
(* attempt made at startup, the retry loop and the two connect routes,     *)
(* each testAndSetDb call advancing from await to await                    *)
(***************************************************************************)
\* createPostgresClient: a new pool, open, numbered in creation order
Pool(by) == [by |-> by, state |-> "open"]

\* pool.end()
end(all, pool) == [all EXCEPT ![pool].state = "closed"]

\* a testAndSetDb call awaiting candidatePool.query("SELECT 1")
Attempt(source, candidate) ==
  [source |-> source, candidate |-> candidate, pc |-> "query", result |-> ""]

\* lines 22-37 and 95-118, up to the first await: the pool of the
\* environment is created and the attempt of the startup awaits its query,
\* or creating the pool threw and the retry loop is started
InitConnect ==
  /\ demoConfigured \in BOOLEAN
  /\ dbAvailable = FALSE
  /\ \/ /\ pools = <<Pool("load"), Pool("initial")>>
        /\ dbPool = Some(1)
        /\ attempts = <<Attempt("initial", 2)>>
        /\ retryInterval = None
        /\ timers = {}
     \/ /\ pools = <<>>
        /\ dbPool = None
        /\ attempts = <<>>
        /\ retryInterval = Some(1)
        /\ timers = {1}

\* startRetryLoop, lines 73-93: the timer it leaves in retryInterval
startRetryLoop(interval) == IF interval # None THEN interval ELSE Some(1)

\* line 45 and 48: testAndSetDb creates its candidate and awaits the query
call(source) ==
  /\ Len(attempts) < MaxAttempts
  /\ pools' = Append(pools, Pool(source))
  /\ attempts' = Append(attempts, Attempt(source, Len(pools) + 1))
  /\ UNCHANGED <<dbPool, dbAvailable, retryInterval, timers, demoConfigured>>
  /\ UNCHANGED <<shared, pc, locals, arrived, sanitizer, snapshot>>

\* POST /db/connect, lines 121-126
Connect == call("connect")

\* POST /db/connect-demo with the demo credentials set, lines 139-155
ConnectDemo == demoConfigured /\ call("demo")

\* POST /db/connect-demo without them, lines 149-151: status 400
DemoNotConfigured ==
  /\ ~demoConfigured
  /\ Len(attempts) < MaxAttempts
  /\ attempts' = Append(attempts, [source |-> "demo", candidate |-> 0,
                                   pc |-> "returned", result |-> "400"])
  /\ UNCHANGED <<dbPool, dbAvailable, retryInterval, timers, pools, demoConfigured>>
  /\ UNCHANGED <<shared, pc, locals, arrived, sanitizer, snapshot>>

\* the interval of the retry loop fires, lines 75-85
RetryTick ==
  /\ timers # {}
  /\ call("retry")

\* lines 55-64: the candidate becomes the active pool, the retry timer is
\* cleared and testAndSetDb returns ok
install(a) ==
  /\ dbPool' = Some(attempts[a].candidate)
  /\ dbAvailable' = TRUE
  /\ retryInterval' = None
  /\ timers' = IF retryInterval = None THEN timers ELSE timers \ {the(retryInterval)}
  /\ attempts' = [attempts EXCEPT ![a].pc = "returned", ![a].result = "ok"]

\* the query of the candidate resolves, lines 48-53: the active pool, if
\* there is one, is ended and that is awaited; with none, lines 55-64 follow
QuerySucceeds(a) ==
  /\ attempts[a].pc = "query"
  /\ IF dbPool # None /\ dbPool # Some(attempts[a].candidate)
       THEN /\ pools' = end(pools, the(dbPool))
            /\ attempts' = [attempts EXCEPT ![a].pc = "endOld"]
            /\ UNCHANGED <<dbPool, dbAvailable, retryInterval, timers>>
       ELSE /\ install(a)
            /\ pools' = pools
  /\ UNCHANGED demoConfigured
  /\ UNCHANGED <<shared, pc, locals, arrived, sanitizer, snapshot>>

\* dbPool.end() has settled
OldPoolEnded(a) ==
  /\ attempts[a].pc = "endOld"
  /\ install(a)
  /\ UNCHANGED <<pools, demoConfigured>>
  /\ UNCHANGED <<shared, pc, locals, arrived, sanitizer, snapshot>>

\* QueryFails leaving the candidate open
QueryFailsNoCleanup(a) ==
  /\ attempts[a].pc = "query"
  /\ attempts' = [attempts EXCEPT ![a].pc = "endCandidate"]
  /\ UNCHANGED <<pools, dbPool, dbAvailable, retryInterval, timers, demoConfigured>>
  /\ UNCHANGED <<shared, pc, locals, arrived, sanitizer, snapshot>>

\* the query of the candidate rejects, lines 65-67: the candidate is ended
\* and that is awaited
QueryFails(a) ==
  /\ attempts[a].pc = "query"
  /\ pools' = end(pools, attempts[a].candidate)
  /\ attempts' = [attempts EXCEPT ![a].pc = "endCandidate"]
  /\ UNCHANGED <<dbPool, dbAvailable, retryInterval, timers, demoConfigured>>
  /\ UNCHANGED <<shared, pc, locals, arrived, sanitizer, snapshot>>

\* candidatePool.end() has settled, lines 68-69: testAndSetDb returns
\* {ok: false, error}
CandidateEnded(a) ==
  /\ attempts[a].pc = "endCandidate"
  /\ attempts' = [attempts EXCEPT ![a].pc = "returned", ![a].result = "fail"]
  /\ UNCHANGED <<pools, dbPool, dbAvailable, retryInterval, timers, demoConfigured>>
  /\ UNCHANGED <<shared, pc, locals, arrived, sanitizer, snapshot>>

\* lines 107-113: the attempt of the startup has failed; the flag is reset
\* and the retry loop started
InitialConnectFailed(a) ==
  /\ attempts[a].source = "initial"
  /\ attempts[a].pc = "returned"
  /\ attempts[a].result = "fail"
  /\ attempts' = [attempts EXCEPT ![a].pc = "handled"]
  /\ dbAvailable' = FALSE
  /\ retryInterval' = startRetryLoop(retryInterval)
  /\ timers' = timers \cup {the(retryInterval')}
  /\ UNCHANGED <<pools, dbPool, demoConfigured>>
  /\ UNCHANGED <<shared, pc, locals, arrived, sanitizer, snapshot>>

NextConnect ==
  \/ Connect
  \/ ConnectDemo
  \/ DemoNotConfigured
  \/ RetryTick
  \/ \E a \in 1..Len(attempts) : QuerySucceeds(a)
  \/ \E a \in 1..Len(attempts) : OldPoolEnded(a)
  \/ \E a \in 1..Len(attempts) : QueryFails(a)
  \/ \E a \in 1..Len(attempts) : CandidateEnded(a)
  \/ \E a \in 1..Len(attempts) : InitialConnectFailed(a)

InitServer ==
  /\ InitChat
  /\ InitSnapshot
  /\ cell = NoCell
  /\ masked = NotSanitized
  /\ InitConnect

SpecConnect == InitServer /\ [][NextConnect]_vars

(***************************************************************************)
(* The sanitizer on its own: sanitizeSamples reaches a cell of a sample    *)
(* row and applies lines 181-184 to it                                     *)
(***************************************************************************)
ColumnNames ==
  {"ssn", "email", "Contact_Email", "contact", "phone", "id", "created_at", "notes"}

ColumnTypes == {"text", "integer", "date", "timestamp without time zone"}

\* the schema rows a column may have, and None for a column with no row
ColumnMetas(columnName) ==
  {None} \cup {Some(SchemaRow("customers", columnName, dataType, isPrimary)) :
                 dataType \in ColumnTypes, isPrimary \in BOOLEAN}

SampleValues ==
  { NullValue,
    StringValue("alice@x.com"), StringValue("user1@example.com"),
    StringValue("alice@localhost"), StringValue("123-45-6789"),
    StringValue("+1 (555) 123-4567"), StringValue("redacted_1"),
    Value("number", "1"), Value("number", "5551234567"),
    Value("boolean", "true"), Value("boolean", "false") }

SampleCells ==
  UNION { { [columnMeta |-> columnMeta, columnName |-> columnName,
             value |-> value, rowIndex |-> rowIndex] :
              columnMeta \in ColumnMetas(columnName), value \in SampleValues,
              rowIndex \in 0..(MaxRows - 1) } :
          columnName \in ColumnNames }

InitSanitizer ==
  /\ InitChat
  /\ InitSnapshot
  /\ NotLoaded
  /\ cell \in SampleCells
  /\ masked = NotSanitized

SanitizeCell ==
  /\ masked = NotSanitized
  /\ masked' = sanitizeCell(cell.columnMeta, cell.columnName, cell.value, cell.rowIndex)
  /\ UNCHANGED <<shared, pc, locals, arrived, cell, snapshot, connection>>

NextSanitizer == SanitizeCell

SpecSanitizer == InitSanitizer /\ [][NextSanitizer]_vars

(***************************************************************************)
(* Properties                                                              *)
(***************************************************************************)
\* the prompts that are follow-ups by the heuristic: a continuation marker
\* in any letter case, or fewer than five tokens
FollowUpPrompts == {"Same for customers in each region please"}

\* a classification response that is a JSON array, and the names in it
IsArrayResponse(r) ==
  \/ r.kind = "nocontent"
  \/ r.kind = "content" /\ r.content.body.type = "array"
ArrayItems(r) == IF r.kind = "nocontent" THEN <<>> ELSE r.content.body.items

\* a classification call that throws, or answers with no JSON array
FailedClassification(r) ==
  \/ r.kind = "throws"
  \/ r.kind = "content" /\ r.content.body.type \in {"malformed", "object"}

TableNames(metadata) == {metadata[i].name : i \in 1..Len(metadata)}

RECURSIVE KeepKnown(_, _)
KeepKnown(names, known) ==
  IF names = <<>> THEN <<>>
  ELSE (IF Head(names) \in known THEN <<Head(names)>> ELSE <<>>)
         \o KeepKnown(Tail(names), known)

\* the instruction template with the schema text in place
InstructionsWith(schema) == "Answer questions about this database.\n" \o schema

\* p takes the step of sendMessage that leaves `from`
Leaves(p, from) == pc[p] = from /\ pc'[p] # from

\* C1: a follow-up query on a conversation that has a cache entry, with a
\* metadata store present and read, gets exactly the cached table list and the request
\* issues no classification call.
C1_CacheHitSkipsClassification ==
  [][\A p \in Procs :
       /\ ( /\ Leaves(p, "load")
            /\ tableMetadataFile # None /\ caught'[p] = ""
            /\ prompt[p] \in FollowUpPrompts
            /\ \E e \in topicCache : e.id = conversationId[p] )
          => /\ pc'[p] = "instructions"
             /\ classifyCalls'[p] = 0
             /\ \A e \in topicCache :
                  e.id = conversationId[p] => relevantTables'[p] = Some(e.tables)
       /\ isCacheHit[p] => (classifyCalls'[p] = 0 /\ pc'[p] # "classify")]_vars

C1_Witness ==
  \E p \in Procs :
    /\ pc[p] = "instructions"
    /\ isCacheHit[p]
    /\ prompt[p] \in FollowUpPrompts
    /\ relevantTables[p] = Some(<<"orders">>)
    /\ classifyCalls[p] = 0
    /\ tableMetadataFile # None

\* C2: a request that finds no metadata store takes the fallback: no
\* selection, no classification call, the topic cache as it was, no error.
C2_NoMetadataFallback ==
  [][\A p \in Procs :
       (Leaves(p, "load") /\ tableMetadataFile = None)
         => /\ pc'[p] = "instructions"
            /\ relevantTables'[p] = None
            /\ schemaContext'[p] = None
            /\ classifyCalls'[p] = 0
            /\ topicCache' = topicCache]_vars

C2_Witness ==
  \E p \in Procs :
    /\ pc[p] = "instructions"
    /\ classifyCalls[p] = 0
    /\ ~isCacheHit[p]
    /\ schemaContext[p] = None
    /\ tableMetadataFile = None
    /\ topicCache # {}

\* C3: every table name in a topic-cache entry is a table of the metadata
\* store as it is now.
C3_CachedTablesKnown ==
  \A e \in topicCache : \A i \in 1..Len(e.tables) :
    /\ tableMetadataFile # None
    /\ e.tables[i] \in TableNames(the(tableMetadataFile))

\* C4: one cache entry per conversation; an entry changes only when a
\* request that was no cache hit gets a non-empty selection, and then it is
\* exactly that selection; the entries of other conversations stay.
C4_CacheEntryReplaced ==
  /\ [](\A e1, e2 \in topicCache : e1.id = e2.id => e1 = e2)
  /\ [][\A p \in Procs :
          ( /\ Leaves(p, "classify")
            /\ relevantTables'[p] # None
            /\ relevantTables'[p] # Some(<<>>) )
          => {e \in topicCache' : e.id = conversationId[p]}
               = {[id |-> conversationId[p], query |-> prompt[p],
                   tables |-> the(relevantTables'[p])]}]_vars
  /\ [][topicCache' # topicCache =>
          \E p \in Procs :
            /\ Leaves(p, "classify")
            /\ ~isCacheHit[p]
            /\ relevantTables'[p] # None
            /\ relevantTables'[p] # Some(<<>>)
            /\ {e \in topicCache' : e.id # conversationId[p]}
                 = {e \in topicCache : e.id # conversationId[p]}]_vars

C4_Witness ==
  \E p, o \in Procs :
    /\ p # o
    /\ pc[p] = "instructions" /\ pc[o] = "instructions"
    /\ conversationId[p] = conversationId[o]
    /\ ~isCacheHit[p] /\ ~isCacheHit[o]
    /\ relevantTables[p] = Some(<<"orders">>)
    /\ relevantTables[o] = Some(<<"customers", "orders">>)
    /\ topicCache = {[id |-> conversationId[o], query |-> prompt[o],
                      tables |-> <<"customers", "orders">>]}

\* C5: a classification whose array holds no known table gives the
\* fallback and leaves the topic cache as it was.
C5_EmptySelectionKeepsEntry ==
  [][\A p \in Procs :
       ( /\ Leaves(p, "classify")
         /\ IsArrayResponse(response'[p])
         /\ \A i \in 1..Len(ArrayItems(response'[p])) :
              ArrayItems(response'[p])[i] \notin TableNames(the(tableMetadata[p])) )
       => /\ relevantTables'[p] = Some(<<>>)
          /\ schemaContext'[p] = None
          /\ topicCache' = topicCache]_vars

C5_Witness ==
  \E p \in Procs :
    /\ pc[p] = "instructions"
    /\ response[p].kind = "content"
    /\ ArrayItems(response[p]) = <<"ghost_table">>
    /\ relevantTables[p] = Some(<<>>)
    /\ schemaContext[p] = None
    /\ \E e \in topicCache : e.id = conversationId[p]

\* C6: a classification call that throws or answers with no JSON array
\* gives the fallback, leaves the topic cache as it was and raises no error;
\* the completion call then carries the full snapshot document.
C6_ClassificationFailureAbsorbed ==
  [][\A p \in Procs :
       /\ Leaves(p, "classify") => pc'[p] = "instructions"
       /\ (Leaves(p, "classify") /\ FailedClassification(response'[p]))
            => /\ relevantTables'[p] = None
               /\ schemaContext'[p] = None
               /\ topicCache' = topicCache
       /\ ( /\ pc[p] = "instructions" /\ pc'[p] = "completion"
            /\ FailedClassification(response[p]) )
            => messages'[p][1] = Entry("system", InstructionsWith(explorerDoc))]_vars

C6_Witness ==
  \E p \in Procs :
    /\ pc[p] = "instructions"
    /\ FailedClassification(response[p])
    /\ classifyCalls[p] = 1
    /\ schemaContext[p] = None
    /\ explorerDoc # ""
    /\ \E e \in topicCache : e.id = conversationId[p]

\* C7: the result of a classification that answers with a JSON array is
\* that array without the names that are no known table, in its order.
C7_HallucinationsDropped ==
  [][\A p \in Procs :
       (Leaves(p, "classify") /\ IsArrayResponse(response'[p]))
         => relevantTables'[p] =
              Some(KeepKnown(ArrayItems(response'[p]),
                             TableNames(the(tableMetadata[p]))))]_vars

C7_Witness ==
  \E p \in Procs :
    /\ pc[p] = "instructions"
    /\ response[p].kind = "content"
    /\ ArrayItems(response[p]) = <<"orders", "ghost_table">>
    /\ relevantTables[p] = Some(<<"orders">>)

C9_RecentIsLatestWindow ==
  \A c \in ConvIds, k \in 0..MaxWindow :
    LET log == conversations[c]
        n == Len(log)
        m == IF k < n THEN k ELSE n
        recent == getRecentMessages(log, k)
    IN  /\ Len(recent) = m
        /\ \A i \in 1..m : recent[i] = log[n - m + i]

C9_Witness ==
  \E c \in ConvIds :
    /\ Len(conversations[c]) > HistoryWindow
    /\ getRecentMessages(conversations[c], HistoryWindow)
         # SubSeq(conversations[c], 1, HistoryWindow)
    /\ Len(getRecentMessages(conversations[c], HistoryWindow)) = HistoryWindow

\* C10: the messages of the completion call are the system message with the
\* instructions, the latest HistoryWindow (or fewer) entries of the request's
\* own conversation in their order, and the prompt as the one user message
\* at the end; the prompt is not in the store when they are composed.
C10_MessagesComposed ==
  [][\A p \in Procs :
       (pc[p] = "instructions" /\ pc'[p] = "completion")
         => LET log == conversations[conversationId[p]]
                n == Len(log)
                m == IF HistoryWindow < n THEN HistoryWindow ELSE n
                sent == messages'[p]
            IN  /\ Len(sent) = m + 2
                /\ sent[1] = Entry("system",
                       InstructionsWith(IF schemaContext[p] # None
                                          THEN the(schemaContext[p])
                                          ELSE explorerDoc))
                /\ \A i \in 1..m : sent[i + 1] = log[n - m + i]
                /\ sent[m + 2] = Entry("user", prompt[p])
                /\ conversations' = conversations]_vars

C10_Witness ==
  \E p \in Procs :
    /\ pc[p] = "completion"
    /\ Len(conversations[conversationId[p]]) > HistoryWindow
    /\ Len(messages[p]) = HistoryWindow + 2
    /\ messages[p][2] = conversations[conversationId[p]][3]
    /\ \E c \in ConvIds : c # conversationId[p] /\ conversations[c] # <<>>

\* the two entries a request stores for its turn
Turn(q, assistantMessage) ==
  <<Entry("user", q), Entry("assistant", assistantMessage)>>

\* C11: the store changes only in the step in which a completion call
\* returns, and then by the prompt and the reply of that request at the end
\* of its own conversation; a request whose completion call throws stores
\* nothing.
C11_AppendsAfterCompletion ==
  [][/\ conversations' # conversations =>
          \E p \in Procs :
            /\ pc[p] = "completion" /\ pc'[p] = "done" /\ thrown'[p] = ""
            /\ conversations' =
                 [conversations EXCEPT ![conversationId[p]] =
                    @ \o Turn(prompt[p], result'[p].message)]
     /\ \A p \in Procs :
          (pc[p] = "completion" /\ pc'[p] = "done")
            => conversations'[conversationId[p]] =
                 conversations[conversationId[p]] \o Turn(prompt[p], result'[p].message)
     /\ \A p \in Procs :
          (Leaves(p, "completion") /\ thrown'[p] = "completion")
            => conversations' = conversations]_vars

C11_Witness ==
  \E p, o \in Procs :
    /\ pc[p] = "error" /\ thrown[p] = "completion"
    /\ pc[o] = "done" /\ result[o].message # ""
    /\ arrived = 2
    /\ \E c \in ConvIds :
         /\ Len(conversations[c]) = 2
         /\ conversations[c][2] = Entry("assistant", result[o].message)
         /\ \A d \in ConvIds \ {c} : conversations[d] = <<>>

\* C12: a completion call that throws makes sendMessage reject: the caller
\* gets the error and no {id, message}.
C12_CompletionFailurePropagates ==
  [][\A p \in Procs :
       (Leaves(p, "completion") /\ thrown'[p] = "completion")
         => pc'[p] = "error" /\ result'[p] = NoResult]_vars

C12_Witness ==
  \E p \in Procs :
    /\ pc[p] = "error"
    /\ thrown[p] = "completion"
    /\ result[p] = NoResult
    /\ \A c \in ConvIds : conversations[c] = <<>>

\* C13: a read of the metadata file that fails with an I/O error makes
\* sendMessage reject.
C13_MetadataReadErrorPropagates ==
  [][\A p \in Procs :
       (Leaves(p, "load") /\ caught'[p] = "EIO") => pc'[p] = "error"]_vars

\* the build leaves the await it stands at
BuildLeaves(from) == build.pc = from /\ build'.pc # from

FailedOutcomes == {"throws", "unparseable"}

\* C14: when generateTableDescriptions throws, or answers what is no JSON,
\* the build goes on to write table-metadata.json and answers ok; the file
\* has one entry per table of the database, in order, with the empty
\* description, the schema rows of the table as columns and the sanitized
\* rows of the table as sample rows.
C14_DescriptionFailureNotFatal ==
  [][ /\ BuildLeaves("describe") => build'.pc = "writeMeta"
      /\ (BuildLeaves("writeMeta") /\ build.outcome \in FailedOutcomes)
           => /\ build'.returned = "ok"
              /\ tableMetadataFile' # None
              /\ knownTablesOf(the(tableMetadataFile')) = build.tables
              /\ \A i \in 1..Len(build.tables) :
                   LET entry == the(tableMetadataFile')[i]
                   IN  /\ entry.description = ""
                       /\ entry.columns = schemaRowsOfTable(build.tables[i])
                       /\ entry.sampleRows = rowsOf(build.tableSamples, build.tables[i])
                       /\ Len(entry.sampleRows) = Len(getSampleRows(build.tables[i])) ]_vars

C14_Witness ==
  /\ build.returned = "ok"
  /\ build.outcome = "unparseable"
  /\ tableMetadataFile # None
  /\ knownTablesOf(the(tableMetadataFile)) = <<"customers", "orders">>
  /\ \A i \in 1..2 :
       /\ the(tableMetadataFile)[i].description = ""
       /\ the(tableMetadataFile)[i].columns # <<>>
       /\ the(tableMetadataFile)[i].sampleRows # <<>>

\* the fallback of a request that leaves its read of the metadata file
FallsBack(p) ==
  /\ pc'[p] = "instructions"
  /\ relevantTables'[p] = None
  /\ schemaContext'[p] = None
  /\ classifyCalls'[p] = 0

\* C15: once a teardown has completed, and until the next build starts, the
\* document is empty and table-metadata.json does not exist, and a request
\* that reads the metadata file falls back.
C15_TeardownLeavesNothing ==
  [][ /\ cleared' => (explorerDoc' = "" /\ tableMetadataFile' = None)
      /\ \A p \in Procs : (cleared /\ Leaves(p, "load")) => FallsBack(p) ]_vars

\* a fetched row after the sanitizer: every cell through sanitizeCell with
\* the schema row of its column and the index of its row
SanitizedRow(schemaRows, tableName, row, rowIndex) ==
  [c \in 1..Len(row) |->
     Cell(row[c].column,
          sanitizeCell(columnMetaOf(schemaRows, tableName, row[c].column),
                       row[c].column, row[c].value, rowIndex))]

\* the line of the document that renders a row
RowLine(row) ==
  "| " \o joinWith([c \in 1..Len(row) |-> formatScalar(row[c].value)], " | ") \o " |"

\* C16: the sample rows a build writes to table-metadata.json are, for
\* every table, the fetched rows after the sanitizer, row by row; the
\* document it writes renders the sanitized rows, and no fetched row that
\* the sanitizer changes.
C16_StoredSamplesSanitized ==
  [][ \A i \in 1..Len(build.tables) :
        LET tableName == build.tables[i]
            raw == rowsOf(build.rawTableSamples, tableName)
            clean == [r \in 1..Len(raw) |->
                        SanitizedRow(build.schemaRows, tableName, raw[r], r - 1)]
        IN  /\ BuildLeaves("writeMeta")
                 => the(tableMetadataFile')[i].sampleRows = clean
            /\ BuildLeaves("writeDoc")
                 => \A r \in 1..Len(raw) :
                      /\ includes(explorerDoc', RowLine(clean[r]))
                      /\ raw[r] # clean[r] => ~includes(explorerDoc', RowLine(raw[r])) ]_vars

C16_Witness ==
  /\ build.returned = "ok"
  /\ tableMetadataFile # None
  /\ knownTablesOf(the(tableMetadataFile)) = <<"customers", "orders">>
  /\ the(tableMetadataFile)[1].sampleRows[1] =
       << Cell("id", Value("number", "1")),
          Cell("email", StringValue("user1@example.com")),
          Cell("contact", StringValue("redacted_1")) >>
  /\ the(tableMetadataFile)[2].sampleRows[1] =
       << Cell("id", Value("number", "1")), Cell("total", Value("number", "42")) >>
  /\ includes(explorerDoc, Backquote \o "user1@example.com" \o Backquote)
  /\ ~includes(explorerDoc, "alice@x.com")

\* C17: requests of one conversation are not kept apart. The classification
\* that settles last sets the cache entry, also over the entry of a request
\* that arrived later; the completion call that returns first stores its turn
\* first, also ahead of a request that arrived earlier and is still in flight.
C17_NoMutualExclusion ==
  [][\A p, o \in Procs :
       ( /\ p # o
         /\ conversationId[p] = conversationId[o]
         /\ Busy(p) /\ Busy(o) )
       => /\ ( /\ arrival[p] < arrival[o]
               /\ Leaves(p, "classify")
               /\ relevantTables'[p] # None /\ relevantTables'[p] # Some(<<>>)
               /\ prompt[o] # prompt[p]
               /\ \E e \in topicCache :
                    e.id = conversationId[o] /\ e.query = prompt[o] )
             => topicCache' =
                  {e \in topicCache : e.id # conversationId[p]}
                    \cup {[id |-> conversationId[p], query |-> prompt[p],
                           tables |-> the(relevantTables'[p])]}
          /\ ( /\ arrival[o] < arrival[p]
               /\ pc[p] = "completion" /\ pc'[p] = "done" )
             => /\ conversations'[conversationId[p]] =
                     conversations[conversationId[p]]
                       \o Turn(prompt[p], result'[p].message)
                /\ pc'[o] = pc[o]]_vars

C17_Witness ==
  \E p, o \in Procs :
    /\ arrival[p] = 1 /\ arrived = 2
    /\ pc[p] = "instructions" /\ ~isCacheHit[p]
    /\ relevantTables[p] = Some(<<"orders">>)
    /\ pc[o] = "done"
    /\ cacheSets[conversationId[p]] = 2
    /\ topicCache = {[id |-> conversationId[p], query |-> prompt[p],
                      tables |-> <<"orders">>]}
    /\ Len(conversations[conversationId[p]]) = 2
    /\ conversations[conversationId[p]][1].content # prompt[p]

\* the column of the cell is marked primary key or has a date or time type
KeyOrDateColumn(c) ==
  /\ c.columnMeta # None
  /\ \/ the(c.columnMeta).is_primary
     \/ the(c.columnMeta).data_type \in {"date", "timestamp without time zone"}

\* strings of the model's sample values that have the shape local@domain.tld
EmailShaped == {"alice@x.com", "user1@example.com"}

\* column names that carry the hint email; column names that carry no hint
\* of buildDummyValue
EmailColumns == {"email", "Contact_Email"}
NoHintColumns == {"ssn", "contact", "id", "created_at", "notes"}

UserEmail(rowIndex) ==
  StringValue("user" \o (IF rowIndex = 0 THEN "1" ELSE IF rowIndex = 1 THEN "2"
                         ELSE IF rowIndex = 2 THEN "3" ELSE "4") \o "@example.com")
Redacted(rowIndex) ==
  StringValue("redacted_" \o (IF rowIndex = 0 THEN "1" ELSE IF rowIndex = 1 THEN "2"
                              ELSE IF rowIndex = 2 THEN "3" ELSE "4"))

\* C18: a value in a column marked primary key, or of a date or time type,
\* comes back unchanged, whatever the column name and the value.
C18_KeyAndDateColumnsUntouched ==
  (masked # NotSanitized /\ KeyOrDateColumn(cell)) => masked = cell.value

C18_Witness ==
  /\ cell.columnName = "email"
  /\ cell.columnMeta # None /\ the(cell.columnMeta).is_primary
  /\ the(cell.columnMeta).data_type = "text"
  /\ cell.value = StringValue("alice@x.com")
  /\ masked = StringValue("alice@x.com")

\* C19 as stated: every email-shaped value at row r comes back as
\* user<r+1>@example.com, whatever the column name.
C19_EmailShapeGivesUserAddress ==
  (masked # NotSanitized /\ cell.value.type = "string" /\ cell.value.text \in EmailShaped)
    => masked = UserEmail(cell.rowIndex)

\* C19 amended: an email-shaped value at row r in a column that is neither
\* primary key nor of a date or time type comes back as user<r+1>@example.com
\* when the column name contains email, and as redacted_<r+1> when the column
\* name carries no hint.
C19_EmailMaskedByColumnHint ==
  ( /\ masked # NotSanitized
    /\ cell.value.type = "string" /\ cell.value.text \in EmailShaped
    /\ ~KeyOrDateColumn(cell) )
  => /\ cell.columnName \in EmailColumns => masked = UserEmail(cell.rowIndex)
     /\ cell.columnName \in NoHintColumns => masked = Redacted(cell.rowIndex)

C19_Witness ==
  /\ cell.columnName = "contact"
  /\ ~KeyOrDateColumn(cell)
  /\ cell.value = StringValue("alice@x.com")
  /\ cell.rowIndex = 1
  /\ masked = StringValue("redacted_2")

\* C20 as stated: every value in a column named ssn comes back as a value
\* different from it.
C20_SsnAlwaysReplaced ==
  (masked # NotSanitized /\ cell.columnName = "ssn") => masked # cell.value

\* C20 amended: in a column named ssn that is neither primary key nor of a
\* date or time type, every string value at row r comes back as
\* redacted_<r+1>, also when it has neither the email nor the phone shape.
C20_SsnStringsRedacted ==
  ( /\ masked # NotSanitized
    /\ cell.columnName = "ssn"
    /\ ~KeyOrDateColumn(cell)
    /\ cell.value.type = "string" )
  => masked = Redacted(cell.rowIndex)

C20_Witness ==
  /\ cell.columnName = "ssn"
  /\ cell.columnMeta # None /\ ~KeyOrDateColumn(cell)
  /\ cell.value = StringValue("123-45-6789")
  /\ cell.rowIndex = 2
  /\ masked = StringValue("redacted_3")

RECURSIVE linesOf(_)
\* the lines of a text
linesOf(text) ==
  IF text = "" THEN <<>>
  ELSE LET ends == {i \in 1..Len(text) : CharAt(text, i) = "\n"}
           first == CHOOSE i \in ends : \A j \in ends : i <= j
       IN  IF ends = {} THEN <<text>>
           ELSE <<SubSeq(text, 1, first - 1)>>
                  \o linesOf(SubSeq(text, first + 1, Len(text)))

\* the tables that have a section in a context, in the order of the sections
sectionsOf(text) ==
  LET heads == SelectSeq(linesOf(text),
                         LAMBDA l : Len(l) > 4 /\ SubSeq(l, 1, 4) = "### ")
  IN  [i \in 1..Len(heads) |-> SubSeq(heads[i], 5, Len(heads[i]))]

\* the metadata a request builds its context from: the file it has just
\* read on a cache hit, the object it holds after a classification
MetadataUsed(p) ==
  IF pc[p] = "load" THEN the(tableMetadataFile) ELSE the(tableMetadata[p])

\* C21: the context built for a non-empty selection has one section for
\* every selected table that the metadata holds, in the order of the
\* selection, and no other section; a selected table the metadata does not
\* hold is skipped and the request goes on.
C21_SectionsOfSelectedTables ==
  [][\A p \in Procs :
       (schemaContext[p] = None /\ schemaContext'[p] # None)
         => /\ sectionsOf(the(schemaContext'[p])) =
                 KeepKnown(the(relevantTables'[p]), TableNames(MetadataUsed(p)))
            /\ pc'[p] = "instructions"]_vars

C21_Witness ==
  \E p \in Procs :
    /\ pc[p] = "instructions"
    /\ relevantTables[p] = Some(<<"customers", "orders">>)
    /\ schemaContext[p] # None
    /\ sectionsOf(the(schemaContext[p])) = <<"orders">>

\* C22: the table list of a topic-cache entry never holds a table name
\* twice, whatever the classification answered.
C22_CachedTablesDistinct ==
  \A e \in topicCache :
    \A i, j \in 1..Len(e.tables) : e.tables[i] = e.tables[j] => i = j

\* C23: with requests of one conversation in flight together, the log of
\* every conversation has even length and alternates user, assistant: the
\* two entries of a request are appended in one step, next to each other.
C23_TurnsAdjacent ==
  \A c \in ConvIds :
    /\ Len(conversations[c]) % 2 = 0
    /\ \A i \in 1..Len(conversations[c]) :
         conversations[c][i].role = IF i % 2 = 1 THEN "user" ELSE "assistant"

\* the request that arrived first awaits its completion while the request
\* that arrived after it on the same conversation has stored its turn
C23_Witness ==
  \E p \in Procs, c \in ConvIds :
    /\ pc[p] = "completion"
    /\ conversationId[p] = c
    /\ arrival[p] = 1
    /\ arrived = 2
    /\ Len(conversations[c]) = 2
    /\ conversations[c][1].role = "user"
    /\ conversations[c][2].role = "assistant"

\* the request fails: its read of the instruction files or its completion
\* call throws
Fails(p) == pc[p] \in {"instructions", "completion"} /\ pc'[p] = "error"

\* C24 as stated: when a request fails, the topic-cache entry of its
\* conversation is the entry that was there when the request arrived.
C24_FailedRequestLeavesEntry ==
  [][\A p \in Procs :
       Fails(p) => topicCacheGet(topicCache', conversationId[p]) = onArrival[p].entry]_vars

\* C24 amended: a request that fails changes nothing in the topic cache at
\* its failure; the entry of its conversation is the entry that was there
\* when the request arrived unless a classification with a non-empty
\* selection, its own or that of another request of the conversation, has
\* set it since, and what was set stays.
C24_FailureUndoesNothing ==
  [][\A p \in Procs :
       Fails(p)
         => /\ topicCache' = topicCache
            /\ cacheSets[conversationId[p]] = onArrival[p].sets
                 => topicCacheGet(topicCache', conversationId[p]) = onArrival[p].entry]_vars

\* of two requests in flight together one has returned and the other has
\* failed at its completion call, with the one entry that was set still there
C24_Witness ==
  /\ pc["r1"] = "done"
  /\ pc["r2"] = "error" /\ thrown["r2"] = "completion"
  /\ \E c \in ConvIds :
       /\ cacheSets[c] = 1
       /\ \E e \in topicCache : e.id = c
       /\ \A o \in ConvIds \ {c} : cacheSets[o] = 0

\* C25: a partial schema context a request holds has the section of at
\* least one table, also on a cache hit after the store was rebuilt.
C25_PartialContextHasSection ==
  \A p \in Procs :
    schemaContext[p] # None => sectionsOf(the(schemaContext[p])) # <<>>

\* C26: with no build and no teardown in flight, table-metadata.json exists
\* exactly when the document is not empty, and then both are of the same
\* tables.
C26_ArtifactsAgree ==
  (build.pc = "idle" /\ clearing = "idle")
    => /\ (tableMetadataFile # None) <=> (explorerDoc # "")
       /\ tableMetadataFile # None
            => sectionsOf(explorerDoc) = knownTablesOf(the(tableMetadataFile))

\* the testAndSetDb call a fails: its query rejects, or the end of its
\* candidate settles and it returns
AttemptFails(a) ==
  /\ a <= Len(attempts)
  /\ \/ attempts[a].pc = "query" /\ attempts'[a].pc = "endCandidate"
     \/ attempts[a].pc = "endCandidate" /\ attempts'[a].pc = "returned"

\* a request on /db/connect-demo is answered 400
DemoRejected ==
  /\ Len(attempts') = Len(attempts) + 1
  /\ attempts'[Len(attempts')].result = "400"

UserConnected ==
  \E a \in 1..Len(attempts) :
    attempts[a].source \in {"connect", "demo"} /\ attempts[a].result = "ok"

\* C28: no more than one retry timer is active at any time, and once a
\* call made by /db/connect or /db/connect-demo has succeeded no call made
\* by the retry loop makes its candidate the active pool.
C28_RetryLeavesUserPool ==
  /\ [](Cardinality(timers) <= 1)
  /\ [][\A a \in 1..MaxAttempts :
          ( /\ a <= Len(attempts)
            /\ attempts[a].source = "retry"
            /\ UserConnected )
          => ~(dbPool' # dbPool /\ dbPool' = Some(attempts[a].candidate))]_vars

\* C29: once every testAndSetDb call has returned, every pool such a call
\* created is the active pool or is closed, and the active pool is open.
C29_NoPoolLeftOpen ==
  (\A a \in 1..Len(attempts) : attempts[a].pc \in {"returned", "handled"})
    => /\ \A i \in 1..Len(pools) :
            pools[i].by # "load" => (dbPool = Some(i) \/ pools[i].state = "closed")
       /\ dbPool # None => pools[the(dbPool)].state = "open"

====
